---- MODULE Spec2Model ----
(***************************************************************************)
(* Model of the dashboard's EventBus (src/js/services/eventBus.js) and of  *)
(* the widget refresh guard (src/js/widgets/baseWidget.js, src/js/main.js).*)
(*                                                                         *)
(* The bus is synchronous and re-entrant: emit() calls the listeners one   *)
(* after the other, and a listener is arbitrary code that may call back    *)
(* into the bus before it returns or throws.  An emit in progress is a     *)
(* frame on `stack`; the listener of the top frame is the code that is     *)
(* running, and every bus operation may be called either from the top      *)
(* level (empty stack) or from that listener.                              *)
(***************************************************************************)
EXTENDS Integers, Sequences, FiniteSets, TLC

\* ---------------------------------------------------------------- bounds
MaxLen == 2          \* most listeners registered at a time, over all events
MaxDepth == 2        \* deepest nesting of emit calls explored
MaxOnce == 1         \* number of once() wrappers created in one run
MaxListenerCalls == 1 \* bus calls one invocation of a listener makes
MaxInFlight == 2     \* loadData calls of one widget in flight saturate here
MaxTimers == 3       \* interval timers of the coordinator alive at a time

\* ------------------------------------------------------ program constants
DefaultMaxListeners == 50

\* ------------------------------------------------------------ input sets
EventNames == {"e1", "e2"}
Callbacks == {"f", "g"}                 \* function values passed by callers
NotAFunction == "notfn"                 \* a callback argument that is no function
CallbackArgs == Callbacks \cup {NotAFunction}
ArgValues == {"x"}                      \* the ...args of an emit
MaxValues == {0, 1}                     \* arguments of setMaxListeners

VARIABLES
    events,         \* this.events: event name -> list of listeners (a Map)
    maxListeners,   \* this.maxListeners
    stack,          \* emit calls in progress, innermost last
    nextOnce,       \* identity of the next onceWrapper closure
    lastOp,         \* the on/once/off call that has just returned, and its result
    removed,        \* <<event, callback>> whose last registration off() removed
    onceCalls,      \* wrapper id -> times its callback was invoked
    watch,          \* which observation this run records (see Watches)
    widgets,        \* DashboardApp.widgets: name -> widget instance
    realtime,       \* the RealtimeService: isOnline, refreshRates, intervals,
                    \* and timers, its setInterval timers that are alive
    hidden,         \* document.hidden
    published,      \* what the last step published on the bus, in order
    lastRt,         \* the last call or event handled, with what it observed
    storage,        \* the StorageService and the browser's localStorage
    lastStore,      \* the last call of the page on the StorageService
    customization,  \* the CustomizationService: preferences, defaultPreferences
    lastCust,       \* the last CustomizationService call
    dashboard       \* the DashboardApp: its init() and the widget it initialises

busVars == <<events, maxListeners, stack, nextOnce, lastOp, removed,
             onceCalls, watch>>
widgetVars == <<widgets>>
realtimeVars == <<realtime, hidden, published, lastRt>>
storageVars == <<storage, lastStore>>
customVars == <<customization, lastCust>>
dashVars == <<dashboard>>
appVars == <<widgets, realtime, hidden, published, lastRt, storage, lastStore,
             customization, lastCust, dashboard>>
vars == <<events, maxListeners, stack, nextOnce, lastOp, removed,
          onceCalls, watch, widgets, realtime, hidden, published, lastRt,
          storage, lastStore, customization, lastCust, dashboard>>

\* The variables lastOp, removed, onceCalls and the frame fields lastOut,
\* offd, late observe the bus without acting on it.  A run records one group
\* of them, chosen at the start, and leaves the others at their initial
\* value: "calls" records lastOp, "off" records removed, offd and late,
\* "once" records onceCalls and lastOut.
Watches == {"calls", "off", "once"}
Watching(w, recorded, idle) == IF watch = w THEN recorded ELSE idle

\* ------------------------------------------------------------- listeners
\* A listener stored in the registry: the caller's function itself (on), or
\* the onceWrapper closure that once() creates around it (a new function
\* object at every call, so it carries an identity).
Plain(cb) == [k |-> "fn", cb |-> cb, id |-> 0]
OnceWrapper(cb, n) == [k |-> "once", cb |-> cb, id |-> n]

\* What a call does: it returns a boolean ("true", "false") or nothing
\* ("void"), or it throws ("threw").
Bool(b) == IF b THEN "true" ELSE "false"

\* typeof callback === 'function'
IsFunction(l) == l.k = "once" \/ l.cb \in Callbacks

\* ------------------------------------------------------------ Map helpers
Has(m, e) == e \in DOMAIN m
MapSet(m, e, v) == [x \in (DOMAIN m) \cup {e} |-> IF x = e THEN v ELSE m[x]]
MapDelete(m, e) == [x \in (DOMAIN m) \ {e} |-> m[x]]
EmptyMap == [x \in {} |-> <<>>]

\* Array.prototype.indexOf, 1-based; 0 stands for -1
IndexOf(s, x) ==
    IF \E i \in 1..Len(s) : s[i] = x
    THEN CHOOSE i \in 1..Len(s) : s[i] = x /\ \A j \in 1..(i - 1) : s[j] # x
    ELSE 0

\* Array.prototype.splice(index, 1)
Splice(s, i) == SubSeq(s, 1, i - 1) \o SubSeq(s, i + 1, Len(s))

listenerCount(m, e) == IF Has(m, e) THEN Len(m[e]) ELSE 0

RECURSIVE TotalListeners(_)
TotalListeners(m) ==
    IF DOMAIN m = {} THEN 0
    ELSE LET e == CHOOSE x \in DOMAIN m : TRUE
         IN  Len(m[e]) + TotalListeners(MapDelete(m, e))
eventNames(m) == DOMAIN m

\* ------------------------------------------------------------ EventBus.on
\* on(eventName, callback) on registry m with cap max: the registry it leaves
\* and what the call does ("threw" for the thrown Error).
OnResultCheckLate(m, max, e, l) ==
    LET m1 == IF Has(m, e) THEN m ELSE MapSet(m, e, <<>>)
    IN  IF ~IsFunction(l) THEN [events |-> m1, ret |-> "threw"]
        ELSE IF Len(m1[e]) >= max THEN [events |-> m1, ret |-> "false"]
        ELSE [events |-> MapSet(m1, e, Append(m1[e], l)), ret |-> "true"]

OnResult(m, max, e, l) ==
    IF ~IsFunction(l) THEN [events |-> m, ret |-> "threw"]
    ELSE LET m1 == IF Has(m, e) THEN m ELSE MapSet(m, e, <<>>)
         IN  IF Len(m1[e]) >= max THEN [events |-> m1, ret |-> "false"]
             ELSE [events |-> MapSet(m1, e, Append(m1[e], l)), ret |-> "true"]

\* ----------------------------------------------------------- EventBus.off
OffResultKeepsListener(m, e, l) ==
    IF ~Has(m, e) THEN [events |-> m, ret |-> "false"]
    ELSE [events |-> m, ret |-> Bool(IndexOf(m[e], l) > 0)]

OffResultKeepsEmpty(m, e, l) ==
    IF ~Has(m, e) THEN [events |-> m, ret |-> "false"]
    ELSE LET index == IndexOf(m[e], l)
         IN  IF index > 0
             THEN [events |-> MapSet(m, e, Splice(m[e], index)), ret |-> "true"]
             ELSE [events |-> m, ret |-> "false"]

OffResult(m, e, l) ==
    IF ~Has(m, e) THEN [events |-> m, ret |-> "false"]
    ELSE LET index == IndexOf(m[e], l)
             rest == Splice(m[e], index)
         IN  IF index > 0
             THEN [events |-> IF Len(rest) = 0 THEN MapDelete(m, e)
                                               ELSE MapSet(m, e, rest),
                   ret |-> "true"]
             ELSE [events |-> m, ret |-> "false"]

\* -------------------------------------------- EventBus.removeAllListeners
NoName == "none"        \* removeAllListeners() called without an event name
RemoveAllResult(m, e) ==
    IF e # NoName THEN [events |-> MapDelete(m, e), ret |-> Bool(Has(m, e))]
    ELSE [events |-> EmptyMap, ret |-> "true"]

\* ---------------------------------------------------------- EventBus.emit
\* An emit in progress.  ev, args, snap (listenersCopy), idx (forEach's
\* position) and successCount are the call's locals; early marks the call
\* that found no entry for the event and is returning false; calls counts the
\* bus calls the running listener has made.  The other
\* fields record what happened: atStart the listener list when the call
\* started, inv the listeners invoked so far with the arguments they got,
\* oks the listeners that completed, threw whether one threw, lastOut how
\* the previous listener ended, offd the callbacks of the snapshot whose last
\* registration off() removed while the call was running, late whether the
\* running listener had been removed by off() before it was invoked.
ListenersCopy(ls) == ls

Frame(e, args, ls, early) ==
    [ev |-> e, args |-> args, snap |-> ListenersCopy(ls), idx |-> 1,
     successCount |-> 0, early |-> early, calls |-> 0, atStart |-> ls,
     inv |-> <<>>,
     oks |-> 0, threw |-> FALSE, lastOut |-> "none", offd |-> {},
     late |-> FALSE]

Top == stack[Len(stack)]
Below == SubSeq(stack, 1, Len(stack) - 1)

\* The listener forEach hands to the callback at position idx.
CurrentListenerLive(f) ==
    IF Has(events, f.ev) /\ f.idx <= Len(events[f.ev])
    THEN events[f.ev][f.idx] ELSE f.snap[f.idx]

CurrentListener(f) == f.snap[f.idx]

\* callback(...args)
PassedArgs(f) == f.args

\* A listener of the top emit is executing; Cur is that listener.
Running == stack # <<>> /\ Top.idx <= Len(Top.snap)
Cur(f) == f.inv[Len(f.inv)][1]

\* Code that can call into the bus: the top level, or the running listener
\* (a onceWrapper around a non-function throws a TypeError before any code
\* of the caller runs).
CanCall ==
    \/ stack = <<>>
    \/ Running /\ Cur(Top).cb \in Callbacks /\ Top.calls < MaxListenerCalls

\* The stack st once the running listener (if any) has made one more call.
Called(st) ==
    IF st = <<>> THEN st
    ELSE [st EXCEPT ![Len(st)] = [@ EXCEPT !.calls = @ + 1]]

\* try { callback(...args); successCount++ } catch (error) { console.error }
SuccessCountAll(f, outcome) == f.successCount + 1

SuccessCount(f, outcome) ==
    IF outcome = "ok" THEN f.successCount + 1 ELSE f.successCount

\* forEach goes on to the next element whatever the listener did.
NextIndexAbort(f, outcome) ==
    IF outcome = "ok" THEN f.idx + 1 ELSE Len(f.snap) + 1

NextIndex(f, outcome) == f.idx + 1

\* What the emit call whose forEach is through (or that found no entry) does:
\* return successCount > 0; no statement of emit lets an exception out.
EmitResult(f) == IF f.early THEN "false" ELSE Bool(f.successCount > 0)

\* Invocation counts: 0, 1, and 2 for "more than once".
More(n) == IF n = 0 THEN 1 ELSE 2

\* Frame f as its listener at idx (if any) is invoked.
Enter(f) ==
    IF f.idx > Len(f.snap) THEN f
    ELSE LET l == CurrentListener(f)
         IN  [f EXCEPT !.inv = Append(@, <<l, PassedArgs(f)>>),
                       !.late = Watching("off", l.k = "fn" /\ <<f.ev, l.cb>> \in removed,
                                         FALSE)]

\* onceWrapper calls callback(...args) first.
OnceCallsOnEnter(f) ==
    IF f.idx > Len(f.snap) THEN onceCalls
    ELSE LET l == CurrentListener(f)
         IN  IF l.k = "once" /\ l.cb \in Callbacks
             THEN Watching("once", [onceCalls EXCEPT ![l.id] = More(@)], onceCalls)
             ELSE onceCalls

\* pre: for on/once, the event was at the cap when called; for off, the
\* callback was registered when called.  fn: the callback is a function.
NoOp == [op |-> "none", ret |-> "void", changed |-> FALSE, pre |-> FALSE,
         fn |-> FALSE]

Count(s, x) == Cardinality({i \in 1..Len(s) : s[i] = x})

\* -------------------------------------------------------------- the state
InitBus ==
    /\ events = EmptyMap
    /\ maxListeners = DefaultMaxListeners
    /\ stack = <<>>
    /\ nextOnce = 1
    /\ lastOp = NoOp
    /\ removed = {}
    /\ onceCalls = [n \in 1..MaxOnce |-> 0]
    /\ watch \in Watches

\* ------------------------------------------------------- the bus actions
\* on(eventName, callback), from the top level or from a running listener.
On(e, cb) ==
    LET r == OnResult(events, maxListeners, e, Plain(cb))
    IN  /\ CanCall
        /\ r.ret = "true" => TotalListeners(events) < MaxLen
        /\ events' = r.events
        /\ removed' = IF r.ret = "true" THEN removed \ {<<e, cb>>} ELSE removed
        /\ lastOp' = Watching("calls",
                        [op |-> "on", ret |-> r.ret, changed |-> (r.events # events),
                         pre |-> (listenerCount(events, e) >= maxListeners),
                         fn |-> (cb \in Callbacks)], NoOp)
        /\ stack' = Called(stack)
        /\ UNCHANGED <<maxListeners, nextOnce, onceCalls, watch, appVars>>

\* once(eventName, callback): on(eventName, onceWrapper)
Once(e, cb) ==
    LET r == OnResult(events, maxListeners, e, OnceWrapper(cb, nextOnce))
    IN  /\ CanCall
        /\ nextOnce <= MaxOnce
        /\ r.ret = "true" => TotalListeners(events) < MaxLen
        /\ events' = r.events
        /\ nextOnce' = IF r.ret = "true" THEN nextOnce + 1 ELSE nextOnce
        /\ lastOp' = Watching("calls",
                        [op |-> "once", ret |-> r.ret, changed |-> (r.events # events),
                         pre |-> (listenerCount(events, e) >= maxListeners),
                         fn |-> (cb \in Callbacks)], NoOp)
        /\ stack' = Called(stack)
        /\ UNCHANGED <<maxListeners, removed, onceCalls, watch, appVars>>

\* off(eventName, callback)
Off(e, cb) ==
    LET r == OffResult(events, e, Plain(cb))
        n == IF Has(events, e) THEN Count(events[e], Plain(cb)) ELSE 0
        gone == watch = "off" /\ r.ret = "true" /\ n = 1
    IN  /\ CanCall
        /\ events' = r.events
        /\ removed' = IF gone THEN removed \cup {<<e, cb>>} ELSE removed
        /\ stack' = IF gone
                    THEN [i \in 1..Len(stack) |->
                            IF stack[i].ev = e /\ Count(stack[i].snap, Plain(cb)) > 0
                            THEN [Called(stack)[i] EXCEPT !.offd = @ \cup {cb}]
                            ELSE Called(stack)[i]]
                    ELSE Called(stack)
        /\ lastOp' = Watching("calls",
                        [op |-> "off", ret |-> r.ret, changed |-> (r.events # events),
                         pre |-> (n > 0), fn |-> (cb \in Callbacks)], NoOp)
        /\ UNCHANGED <<maxListeners, nextOnce, onceCalls, watch, appVars>>

\* removeAllListeners(eventName) and removeAllListeners()
RemoveAllListeners(e) ==
    /\ CanCall
    /\ events' = RemoveAllResult(events, e).events
    /\ lastOp' = NoOp
    /\ stack' = Called(stack)
    /\ UNCHANGED <<maxListeners, nextOnce, removed, onceCalls, watch, appVars>>

\* setMaxListeners(max): throws unless max is a number >= 1
SetMaxListeners(max) ==
    /\ CanCall
    /\ maxListeners' = IF max < 1 THEN maxListeners ELSE max
    /\ lastOp' = NoOp
    /\ stack' = Called(stack)
    /\ UNCHANGED <<events, nextOnce, removed, onceCalls, watch, appVars>>

\* emit(eventName, ...args) up to the call of the first listener, or up to
\* its return false when the event has no entry.
Emit(e, args) ==
    LET f == IF Has(events, e) THEN Frame(e, args, events[e], FALSE)
                               ELSE Frame(e, args, <<>>, TRUE)
    IN  /\ CanCall
        /\ Len(stack) < MaxDepth
        /\ stack' = Append(Called(stack), Enter(f))
        /\ onceCalls' = OnceCallsOnEnter(f)
        /\ lastOp' = NoOp
        /\ UNCHANGED <<events, maxListeners, nextOnce, removed, watch, appVars>>

\* Frame f after its running listener ended with outcome.
Advance(f, outcome) ==
    [f EXCEPT !.idx = NextIndex(f, outcome),
              !.successCount = SuccessCount(f, outcome),
              !.oks = IF outcome = "ok" THEN More(@) ELSE @,
              !.threw = (@ \/ outcome = "threw"),
              !.calls = 0,
              !.lastOut = Watching("once", outcome, "none"),
              !.late = FALSE]

\* The running listener returns and forEach calls the next one.  A
\* onceWrapper has called callback(...args) and now runs
\* this.off(eventName, onceWrapper) before it returns.
ListenerReturn ==
    /\ Running
    /\ Cur(Top).cb \in Callbacks
    /\ LET l == Cur(Top)
           f == Advance(Top, "ok")
       IN  /\ events' = IF l.k = "once" THEN OffResult(events, Top.ev, l).events
                                        ELSE events
           /\ stack' = Append(Below, Enter(f))
           /\ onceCalls' = OnceCallsOnEnter(f)
    /\ lastOp' = NoOp
    /\ UNCHANGED <<maxListeners, nextOnce, removed, watch, appVars>>

\* The running listener throws; emit's catch logs the error and forEach
\* calls the next one.  A onceWrapper whose callback throws is left before
\* its this.off(...) line.
ListenerThrow ==
    /\ Running
    /\ LET f == Advance(Top, "threw")
       IN  /\ stack' = Append(Below, Enter(f))
           /\ onceCalls' = OnceCallsOnEnter(f)
    /\ lastOp' = NoOp
    /\ UNCHANGED <<events, maxListeners, nextOnce, removed, watch, appVars>>

\* The emit call whose forEach is through returns to its caller.
EmitReturn ==
    /\ stack # <<>>
    /\ ~Running
    /\ stack' = Below
    /\ lastOp' = NoOp
    /\ UNCHANGED <<events, maxListeners, nextOnce, removed, onceCalls, watch, appVars>>

NextBus ==
    \/ \E e \in EventNames, cb \in CallbackArgs : On(e, cb)
    \/ \E e \in EventNames, cb \in CallbackArgs : Once(e, cb)
    \/ \E e \in EventNames, cb \in CallbackArgs : Off(e, cb)
    \/ \E e \in EventNames \cup {NoName} : RemoveAllListeners(e)
    \/ \E max \in MaxValues : SetMaxListeners(max)
    \/ \E e \in EventNames, args \in ArgValues : Emit(e, args)
    \/ ListenerReturn
    \/ ListenerThrow
    \/ EmitReturn

\* ------------------------------------------------------------ the widgets
\* The names under which the orchestrator registers widgets (widgetConfigs)
\* and the widgets whose init() starts their own timer.
Widgets == {"announcements", "quickLaunch", "tasks"}
SelfTimedWidgets == {"announcements", "tasks"}
LoadOutcomes == {"ok", "loadFails", "renderFails"}

\* A widget instance: isLoading is BaseWidget.isLoading, view what its
\* container shows, inFlight the loadData calls started by refresh() that
\* have not settled, calls the refresh() calls made since the refresh in
\* flight started (0 when none is in flight, 2 for "more than one").
\* refreshInterval is "timer" when the field holds a timer handle, ownTimers
\* the timers of startAutoRefresh that are alive, refreshIntervalMs 1 for any
\* interval > 0, destroys the destroy() calls made (2 for "more than one").
\* Every widget has been initialised and shows its content.
InitialWidgets ==
    [w \in Widgets |->
                [isLoading |-> FALSE, inFlight |-> 0, view |-> "content",
                 calls |-> 0,
                 refreshInterval |-> IF w \in SelfTimedWidgets THEN "timer" ELSE "null",
                 ownTimers |-> IF w \in SelfTimedWidgets THEN 1 ELSE 0,
                 autoRefreshEnabled |-> TRUE,
                 refreshIntervalMs |-> IF w \in SelfTimedWidgets THEN 1 ELSE 0,
                 destroys |-> 0]]

InitWidgets == widgets = InitialWidgets

\* refresh() up to its await: the guard, setLoadingState(true), loadData().
RefreshNoGuard(wd) ==
    [wd EXCEPT !.isLoading = TRUE, !.inFlight = @ + 1, !.calls = More(@)]

Refresh(wd) ==
    IF wd.isLoading THEN [wd EXCEPT !.calls = More(@)]
    ELSE [wd EXCEPT !.isLoading = TRUE, !.inFlight = @ + 1, !.calls = More(@)]

\* refresh() after its await: render() and widget:refreshed, or handleError
\* (widget:error and the error panel), then finally setLoadingState(false).
SettleNoFinally(wd, outcome) ==
    [wd EXCEPT !.view = IF outcome = "ok" THEN "content" ELSE "error",
               !.isLoading = (outcome # "ok"),
               !.inFlight = @ - 1,
               !.calls = IF wd.inFlight = 1 THEN 0 ELSE @]

Settle(wd, outcome) ==
    [wd EXCEPT !.view = IF outcome = "ok" THEN "content" ELSE "error",
               !.isLoading = FALSE,
               !.inFlight = @ - 1,
               !.calls = IF wd.inFlight = 1 THEN 0 ELSE @]

\* The 'widget:refresh-requested' handler: widgets.get(widgetName).refresh()
RefreshRequested(ws, names) ==
    [w \in DOMAIN ws |-> IF w \in names THEN Refresh(ws[w]) ELSE ws[w]]

\* refreshWidgets(): refresh() on every widget of the map
RefreshWidgets(ws) == [w \in DOMAIN ws |-> Refresh(ws[w])]

\* this.constructor.name of the widget registered under a name: the name of
\* the class in its widgetConfigs entry.
ConstructorName(w) ==
    CASE w = "announcements" -> "AnnouncementsWidget"
      [] w = "quickLaunch" -> "QuickLaunchWidget"
      [] w = "tasks" -> "TasksWidget"

\* What refresh() publishes after its await: widget:refreshed after
\* render(), or widget:error from handleError, with this.constructor.name.
SettleEvents(w, outcome) ==
    IF outcome = "ok" THEN << <<"widget:refreshed", ConstructorName(w)>> >>
    ELSE << <<"widget:error", ConstructorName(w)>> >>

\* The elements from the retry button of a widget's error panel up to the
\* section of the page that holds the widget's container, innermost first
\* (index.html), and whether an element has the class 'widget'.
ElementPath(w) ==
    IF w = "announcements"
    THEN <<"button", "container", "dashboardSection">>
    ELSE <<"button", "container", "widgetSection">>

HasWidgetClass(el) == el = "widgetSection"

\* button.closest('.widget'): the innermost element of the path that has the
\* class, "null" when none has.
closest(path) ==
    LET hits == {i \in 1..Len(path) : HasWidgetClass(path[i])}
    IN  IF hits = {} THEN "null"
        ELSE path[CHOOSE i \in hits : \A j \in hits : i <= j]

\* showErrorState() puts the listener of 'retry' on this.container.
RetryListener == "container"

\* The button's onclick: closest('.widget').dispatchEvent(new
\* CustomEvent('retry')). A TypeError when closest() is null; the event does
\* not bubble, so only a listener on the element it is dispatched on runs,
\* and that listener calls refresh().
retryClicked(wd, w) ==
    IF closest(ElementPath(w)) = RetryListener THEN Refresh(wd) ELSE wd

\* stopAutoRefresh() and startAutoRefresh() of a widget
stopAutoRefreshOf(wd) ==
    IF wd.refreshInterval # "null"
    THEN [wd EXCEPT !.ownTimers = @ - 1, !.refreshInterval = "null"]
    ELSE wd

startAutoRefreshOf(wd) ==
    LET s == IF wd.refreshInterval # "null" THEN stopAutoRefreshOf(wd) ELSE wd
    IN  IF s.autoRefreshEnabled /\ s.refreshIntervalMs > 0
        THEN [s EXCEPT !.ownTimers = @ + 1, !.refreshInterval = "timer"]
        ELSE s

setAutoRefreshInterval(wd, intervalMs) ==
    LET s == [wd EXCEPT !.refreshIntervalMs = intervalMs]
    IN  IF s.refreshInterval # "null"
        THEN startAutoRefreshOf(stopAutoRefreshOf(s)) ELSE s

setAutoRefresh(wd, enabled) ==
    LET s == [wd EXCEPT !.autoRefreshEnabled = enabled]
    IN  IF enabled THEN startAutoRefreshOf(s) ELSE stopAutoRefreshOf(s)

\* destroy(): stopAutoRefresh(), container.innerHTML = ''
destroyKeepsTimer(wd) == [wd EXCEPT !.view = "empty", !.destroys = More(@)]

destroy(wd) ==
    [stopAutoRefreshOf(wd) EXCEPT !.view = "empty", !.destroys = More(@)]

InBound(ws) == \A w \in DOMAIN ws : ws[w].inFlight <= MaxInFlight

\* --------------------------------------------------------- StorageService
\* A value: null, a boolean, a number, a string (its characters, or longer
\* pieces of it), an array of values (items), an object (its property names
\* in keys, their values in items, in insertion order), or undefined.
JNull ==
    [type |-> "null", bool |-> FALSE, num |-> 0, str |-> <<>>, items |-> <<>>,
     keys |-> <<>>]
JBool(b) == [JNull EXCEPT !.type = "boolean", !.bool = b]
JNum(n) == [JNull EXCEPT !.type = "number", !.num = n]
JStr(cs) == [JNull EXCEPT !.type = "string", !.str = cs]
JArr(vs) == [JNull EXCEPT !.type = "array", !.items = vs]
JObj(ks, vs) == [JNull EXCEPT !.type = "object", !.keys = ks, !.items = vs]
JUndefined == [JNull EXCEPT !.type = "undefined"]

\* Where key is in the property names of an object (no name is there
\* twice); 0 when it is not
KeyIndex(keys, key) ==
    LET hits == {i \in 1..Len(keys) : keys[i] = key}
    IN  IF hits = {} THEN 0 ELSE CHOOSE i \in hits : TRUE

\* obj[key], obj[key] = value, and what { ...obj } copies from obj
GetProp(obj, key) ==
    LET k == IF obj.type = "object" THEN KeyIndex(obj.keys, key) ELSE 0
    IN  IF k > 0 THEN obj.items[k] ELSE JUndefined

SetProp(obj, key, value) ==
    LET k == KeyIndex(obj.keys, key)
    IN  IF k > 0
        THEN [obj EXCEPT !.items[k] = value]
        ELSE [obj EXCEPT !.keys = Append(@, key), !.items = Append(@, value)]

RECURSIVE SpreadFrom(_, _, _)
SpreadFrom(target, obj, i) ==
    IF obj.type # "object" \/ i > Len(obj.keys) THEN target
    ELSE SpreadFrom(SetProp(target, obj.keys[i], obj.items[i]), obj, i + 1)

\* { ...a, ...b }
Spread(a, b) == SpreadFrom(SpreadFrom(JObj(<<>>, <<>>), a, 1), b, 1)

Digits == <<"0", "1", "2", "3", "4", "5", "6", "7", "8", "9">>

\* JSON.stringify: the text as its sequence of tokens
RECURSIVE stringify(_), stringifyItems(_, _), stringifyMembers(_, _),
          stringifyNumber(_)
stringify(v) ==
    CASE v.type = "null" -> <<"null">>
      [] v.type = "boolean" -> <<IF v.bool THEN "true" ELSE "false">>
      [] v.type = "number" -> stringifyNumber(v.num)
      [] v.type = "string" -> <<"\"">> \o v.str \o <<"\"">>
      [] v.type = "array" -> <<"[">> \o stringifyItems(v.items, 1) \o <<"]">>
      [] v.type = "object" -> <<"{">> \o stringifyMembers(v, 1) \o <<"}">>

stringifyNumber(n) ==
    IF n < 10 THEN <<Digits[n + 1]>>
    ELSE stringifyNumber(n \div 10) \o <<Digits[(n % 10) + 1]>>

stringifyMembers(obj, i) ==
    IF i > Len(obj.keys) THEN <<>>
    ELSE (IF i > 1 THEN <<",">> ELSE <<>>)
            \o <<"\"", obj.keys[i], "\"", ":">> \o stringify(obj.items[i])
            \o stringifyMembers(obj, i + 1)

stringifyItems(vs, i) ==
    IF i > Len(vs) THEN <<>>
    ELSE (IF i > 1 THEN <<",">> ELSE <<>>) \o stringify(vs[i])
            \o stringifyItems(vs, i + 1)

\* JSON.parse: the value that starts at token i of the text, and the index
\* of the token after it
RECURSIVE parseValue(_, _), parseItems(_, _, _), parseString(_, _, _),
          parseMembers(_, _, _), parseNumber(_, _, _)
parseValue(ts, i) ==
    LET t == ts[i]
    IN  CASE t = "\"" -> parseString(ts, i + 1, <<>>)
          [] t = "null" -> [value |-> JNull, next |-> i + 1]
          [] t = "true" -> [value |-> JBool(TRUE), next |-> i + 1]
          [] t = "false" -> [value |-> JBool(FALSE), next |-> i + 1]
          [] t = "[" -> IF ts[i + 1] = "]"
                        THEN [value |-> JArr(<<>>), next |-> i + 2]
                        ELSE parseItems(ts, i + 1, <<>>)
          [] t = "{" -> IF ts[i + 1] = "}"
                        THEN [value |-> JObj(<<>>, <<>>), next |-> i + 2]
                        ELSE parseMembers(ts, i + 1, JObj(<<>>, <<>>))
          [] OTHER -> parseNumber(ts, i, 0)

parseNumber(ts, i, acc) ==
    LET d == IF i <= Len(ts) THEN KeyIndex(Digits, ts[i]) ELSE 0
    IN  IF d > 0
        THEN parseNumber(ts, i + 1, 10 * acc + d - 1)
        ELSE [value |-> JNum(acc), next |-> i]

parseString(ts, i, acc) ==
    IF ts[i] = "\"" THEN [value |-> JStr(acc), next |-> i + 1]
    ELSE parseString(ts, i + 1, Append(acc, ts[i]))

parseItems(ts, i, acc) ==
    LET p == parseValue(ts, i)
        items == Append(acc, p.value)
    IN  IF ts[p.next] = ","
        THEN parseItems(ts, p.next + 1, items)
        ELSE [value |-> JArr(items), next |-> p.next + 1]

\* "key" : value , ... }
parseMembers(ts, i, obj) ==
    LET p == parseValue(ts, i + 4)
        o == SetProp(obj, ts[i + 1], p.value)
    IN  IF ts[p.next] = ","
        THEN parseMembers(ts, p.next + 1, o)
        ELSE [value |-> o, next |-> p.next + 1]

JSONparse(text) == parseValue(text, 1).value

\* What || and ?: take for true
Truthy(v) ==
    ~ \/ v.type = "null"
      \/ v.type = "undefined"
      \/ v.type = "boolean" /\ ~v.bool
      \/ v.type = "number" /\ v.num = 0
      \/ v.type = "string" /\ v.str = <<>>

Keys == {"user_preferences", "custom_shortcuts"}
Values == {JNull, JBool(FALSE), JNum(0), JStr(<<>>), JStr(<<"a">>),
           JArr(<<JBool(TRUE), JStr(<<>>)>>),
           JObj(<<"theme", "refreshInterval">>, <<JStr(<<"dark">>), JNum(300000)>>)}

\* this.prefix + key
FullKey(key) == <<"dashboard_", key>>

\* new StorageService(), in a browser whose localStorage holds ls
StorageService(available, ls) ==
    [isLocalStorageAvailable |-> available, memoryStorage |-> EmptyMap,
     localStorage |-> ls]

\* getItem(key): the value returned
getItem(st, key) ==
    LET fullKey == FullKey(key)
    IN  IF st.isLocalStorageAvailable
        THEN IF fullKey \in DOMAIN st.localStorage
                    /\ Len(st.localStorage[fullKey]) > 0
             THEN JSONparse(st.localStorage[fullKey])
             ELSE JNull
        ELSE IF fullKey \in DOMAIN st.memoryStorage
                    /\ Truthy(st.memoryStorage[fullKey])
             THEN st.memoryStorage[fullKey]
             ELSE JNull

\* setItem(key, value): the service afterwards; quotaExceeded is
\* localStorage.setItem throwing, which makes setItem return false
setItem(st, key, value, quotaExceeded) ==
    LET fullKey == FullKey(key)
    IN  IF st.isLocalStorageAvailable
        THEN IF quotaExceeded THEN st
             ELSE [st EXCEPT !.localStorage = MapSet(@, fullKey, stringify(value))]
        ELSE [st EXCEPT !.memoryStorage = MapSet(@, fullKey, value)]

removeItem(st, key) ==
    LET fullKey == FullKey(key)
    IN  IF st.isLocalStorageAvailable
        THEN [st EXCEPT !.localStorage = MapDelete(@, fullKey)]
        ELSE [st EXCEPT !.memoryStorage = MapDelete(@, fullKey)]

\* lastStore: the last call the page made on the service (the calls the
\* other services make for the preferences are not recorded) with its key
\* and the value passed or returned; ok is false when setItem returned false.
LastStore(op, key, value, ok) ==
    [op |-> op, key |-> key, value |-> value, ok |-> ok]

\* getUserPreferences(): the stored object, or a new object with these
\* fields; setUserPreferences(preferences)
StoredDefaultPreferences ==
    JObj(<<"theme", "widgetOrder", "hiddenWidgets", "autoRefresh",
           "refreshInterval">>,
         <<JStr(<<"light">>),
           JArr(<<JStr(<<"announcements">>), JStr(<<"quickLaunch">>),
                  JStr(<<"tasks">>), JStr(<<"calendar">>), JStr(<<"tickets">>)>>),
           JArr(<<>>), JBool(TRUE), JNum(300000)>>)

getUserPreferences(st) ==
    LET item == getItem(st, "user_preferences")
    IN  IF Truthy(item) THEN item ELSE StoredDefaultPreferences

setUserPreferences(st, preferences) ==
    setItem(st, "user_preferences", preferences, FALSE)

\* -------------------------------------------------------- RealtimeService
\* The keys of refreshRates in Object.keys order, and their intervals: 1
\* stands for any interval > 0 (the code only tests interval > 0).
RateOrder == <<"announcements", "tasks", "shortcuts">>
RefreshRateNames == {RateOrder[i] : i \in 1..Len(RateOrder)}
InitialRates == [n \in RefreshRateNames |-> IF n = "shortcuts" THEN 0 ELSE 1]
TimedNames == {n \in RefreshRateNames : InitialRates[n] > 0}
Intervals == {0, 1}
\* The names the service's methods are called with, and those
\* setRefreshRate is called with
CallNames == {"tasks", "shortcuts"}
PreferenceRateNames == {"tasks"}

RefreshRequestedEvent(name) == <<"widget:refresh-requested", name>>
NetworkEvent(e) == <<e, "">>

\* setInterval returns an id that no timer has had before: here the first id
\* that is neither alive nor still held in this.intervals.
UsedTimers(rt) == DOMAIN rt.timers \cup {rt.intervals[n] : n \in DOMAIN rt.intervals}
FreeTimer(rt) ==
    CHOOSE t \in 1..(MaxTimers + Len(RateOrder)) :
        /\ t \notin UsedTimers(rt)
        /\ \A u \in 1..(t - 1) : u \in UsedTimers(rt)

\* clearInterval(id): no effect when the timer is no longer alive
ClearInterval(timers, ids) == [t \in DOMAIN timers \ ids |-> timers[t]]

LiveNames(rt) == {rt.timers[t] : t \in DOMAIN rt.timers}
TimersOf(rt, name) == {t \in DOMAIN rt.timers : rt.timers[t] = name}

stopWidgetRefresh(rt, name) ==
    IF Has(rt.intervals, name)
    THEN [rt EXCEPT !.timers = ClearInterval(@, {rt.intervals[name]}),
                    !.intervals = MapDelete(@, name)]
    ELSE rt

startWidgetRefresh(rt, name, interval) ==
    LET r == stopWidgetRefresh(rt, name)
    IN  IF ~r.isOnline \/ interval <= 0 THEN r
        ELSE [r EXCEPT !.timers = MapSet(@, FreeTimer(r), name),
                       !.intervals = MapSet(@, name, FreeTimer(r))]

\* Object.entries(this.refreshRates).forEach(...), from entry i on
RECURSIVE startAutoRefreshFrom(_, _)
startAutoRefreshFrom(rt, i) ==
    IF i > Len(RateOrder) THEN rt
    ELSE LET name == RateOrder[i]
             interval == rt.refreshRates[name]
         IN  startAutoRefreshFrom(
                 IF interval > 0 THEN startWidgetRefresh(rt, name, interval) ELSE rt,
                 i + 1)

startAutoRefresh(rt) == startAutoRefreshFrom(rt, 1)

pauseAutoRefresh(rt) ==
    [rt EXCEPT !.timers =
        ClearInterval(@, {rt.intervals[n] : n \in DOMAIN rt.intervals})]

resumeAutoRefresh(rt) == startAutoRefresh([rt EXCEPT !.intervals = EmptyMap])

setRefreshRate(rt, name, interval) ==
    LET r == [rt EXCEPT !.refreshRates[name] = interval]
    IN  IF interval > 0 THEN startWidgetRefresh(r, name, interval)
        ELSE stopWidgetRefresh(r, name)

setAutoRefreshEnabled(rt, enabled) ==
    IF enabled THEN startAutoRefresh(rt) ELSE pauseAutoRefresh(rt)

\* this.refreshRates as the object it is
RefreshRatesObject(rt) ==
    JObj(RateOrder, [i \in 1..Len(RateOrder) |-> JNum(rt.refreshRates[RateOrder[i]])])

\* The preferences setRefreshRate and setAutoRefreshEnabled save: the
\* stored ones with the one property assigned
RefreshRatePreferences(st, rt) ==
    SetProp(getUserPreferences(st), "refreshRates", RefreshRatesObject(rt))

AutoRefreshPreferences(st, enabled) ==
    SetProp(getUserPreferences(st), "autoRefresh", JBool(enabled))

\* isAutoRefreshEnabled()
isAutoRefreshEnabled(st) ==
    GetProp(getUserPreferences(st), "autoRefresh") # JBool(FALSE)

\* handleVisibilityChange(): the events it publishes, from key i on
RECURSIVE VisibilityEventsFrom(_)
VisibilityEventsFrom(i) ==
    IF i > Len(RateOrder) THEN <<>>
    ELSE <<RefreshRequestedEvent(RateOrder[i])>> \o VisibilityEventsFrom(i + 1)

handleVisibilityChangeOffline(rt) == VisibilityEventsFrom(1)

handleVisibilityChange(rt) == IF rt.isOnline THEN VisibilityEventsFrom(1) ELSE <<>>

\* The names of the refresh-requested events in a list of published events
RequestedNames(evs) ==
    {evs[i][2] : i \in {j \in 1..Len(evs) : evs[j][1] = "widget:refresh-requested"}}

InTimerBound(rt) == UsedTimers(rt) \subseteq 1..MaxTimers

\* lastRt: op is the call or event when it is one of Observed, name the
\* widget name stopWidgetRefresh was called with, live the names with a live
\* timer when pauseAutoRefresh was called.
Observed == {"init", "stop", "pause", "resume", "tick", "visible", "offline",
             "online", "destroy", "ok", "loadFails", "renderFails", "retry"}
Last(op, name, live) ==
    [op |-> IF op \in Observed THEN op ELSE "other", name |-> name,
     live |-> live]

\* The service as its constructor leaves it, online.
NewRealtime ==
    [isOnline |-> TRUE, refreshRates |-> InitialRates,
     intervals |-> EmptyMap, timers |-> EmptyMap]

\* The dashboard is running: init() has started a timer for every key with
\* an interval > 0; the page is visible.
InitialRealtime == startAutoRefresh(NewRealtime)

InitRealtime ==
    /\ realtime = InitialRealtime
    /\ hidden = FALSE
    /\ published = <<>>
    /\ lastRt = Last("init", "", {})

\* The service's methods, called in any order; none publishes anything.
StartWidgetRefresh(name, interval) ==
    /\ realtime' = startWidgetRefresh(realtime, name, interval)
    /\ InTimerBound(realtime')
    /\ lastRt' = Last("start", "", {})
    /\ published' = <<>>
    /\ UNCHANGED <<busVars, dashVars, customVars, storageVars, widgets, hidden>>

StopWidgetRefresh(name) ==
    /\ realtime' = stopWidgetRefresh(realtime, name)
    /\ InTimerBound(realtime')
    /\ lastRt' = Last("stop", name, {})
    /\ published' = <<>>
    /\ UNCHANGED <<busVars, dashVars, customVars, storageVars, widgets, hidden>>

StartAutoRefresh ==
    /\ realtime' = startAutoRefresh(realtime)
    /\ InTimerBound(realtime')
    /\ lastRt' = Last("startAll", "", {})
    /\ published' = <<>>
    /\ UNCHANGED <<busVars, dashVars, customVars, storageVars, widgets, hidden>>

PauseAutoRefresh ==
    /\ realtime' = pauseAutoRefresh(realtime)
    /\ InTimerBound(realtime')
    /\ lastRt' = Last("pause", "", LiveNames(realtime))
    /\ published' = <<>>
    /\ UNCHANGED <<busVars, dashVars, customVars, storageVars, widgets, hidden>>

ResumeAutoRefresh ==
    /\ realtime' = resumeAutoRefresh(realtime)
    /\ InTimerBound(realtime')
    /\ lastRt' = Last("resume", "", {})
    /\ published' = <<>>
    /\ UNCHANGED <<busVars, dashVars, customVars, storageVars, widgets, hidden>>

SetRefreshRate(name, interval) ==
    /\ realtime' = setRefreshRate(realtime, name, interval)
    /\ InTimerBound(realtime')
    /\ lastRt' = Last("setRate", "", {})
    /\ published' = <<>>
    /\ \E preferences \in {RefreshRatePreferences(storage, realtime')} :
            storage' = setUserPreferences(storage, preferences)
    /\ UNCHANGED lastStore
    /\ UNCHANGED <<busVars, dashVars, customVars, widgets, hidden>>

SetAutoRefreshEnabled(enabled) ==
    /\ realtime' = setAutoRefreshEnabled(realtime, enabled)
    /\ InTimerBound(realtime')
    /\ lastRt' = Last("setEnabled", "", {})
    /\ published' = <<>>
    /\ \E preferences \in {AutoRefreshPreferences(storage, enabled)} :
            storage' = setUserPreferences(storage, preferences)
    /\ UNCHANGED lastStore
    /\ UNCHANGED <<busVars, dashVars, customVars, widgets, hidden>>

\* A coordinator timer fires: if (this.isOnline && !document.hidden)
\* emit('widget:refresh-requested', name), which the orchestrator's handler
\* turns into widgets.get(name).refresh().
Tick(t) ==
    /\ t \in DOMAIN realtime.timers
    /\ published' = IF realtime.isOnline /\ ~hidden
                    THEN <<RefreshRequestedEvent(realtime.timers[t])>> ELSE <<>>
    /\ widgets' = RefreshRequested(widgets, RequestedNames(published'))
    /\ InBound(widgets')
    /\ lastRt' = Last("tick", "", {})
    /\ UNCHANGED <<busVars, dashVars, customVars, storageVars, realtime, hidden>>

\* A widget's own timer fires: setInterval(this.refresh, ...).
WidgetTimer(w) ==
    /\ widgets[w].ownTimers > 0
    /\ widgets' = [widgets EXCEPT ![w] = Refresh(@)]
    /\ InBound(widgets')
    /\ published' = <<>>
    /\ lastRt' = Last("widgetTimer", "", {})
    /\ UNCHANGED <<busVars, dashVars, customVars, storageVars, realtime, hidden>>

\* The page is hidden: no listener does anything.
PageHidden ==
    /\ ~hidden
    /\ hidden' = TRUE
    /\ published' = <<>>
    /\ lastRt' = Last("hidden", "", {})
    /\ UNCHANGED <<busVars, dashVars, customVars, storageVars, realtime, widgets>>

\* The page becomes visible: the orchestrator's listener calls
\* refreshWidgets(), then the coordinator's listener publishes one
\* refresh-requested per refreshRates key, each handled by refresh().
PageVisible ==
    /\ hidden
    /\ hidden' = FALSE
    /\ published' = handleVisibilityChange(realtime)
    /\ widgets' = RefreshRequested(RefreshWidgets(widgets), RequestedNames(published'))
    /\ InBound(widgets')
    /\ lastRt' = Last("visible", "", {})
    /\ UNCHANGED <<busVars, dashVars, customVars, storageVars, realtime>>

\* The browser goes offline: isOnline = false, network:offline,
\* pauseAutoRefresh().
NetworkOffline ==
    /\ realtime.isOnline
    /\ realtime' = pauseAutoRefresh([realtime EXCEPT !.isOnline = FALSE])
    /\ published' = <<NetworkEvent("network:offline")>>
    /\ lastRt' = Last("offline", "", {})
    /\ UNCHANGED <<busVars, dashVars, customVars, storageVars, widgets, hidden>>

\* The browser goes online: isOnline = true, network:online (on which the
\* orchestrator calls refreshWidgets()), resumeAutoRefresh(); then the
\* orchestrator's own 'online' listener calls refreshWidgets() again.
NetworkOnline ==
    /\ ~realtime.isOnline
    /\ realtime' = resumeAutoRefresh([realtime EXCEPT !.isOnline = TRUE])
    /\ InTimerBound(realtime')
    /\ published' = <<NetworkEvent("network:online")>>
    /\ widgets' = RefreshWidgets(RefreshWidgets(widgets))
    /\ InBound(widgets')
    /\ lastRt' = Last("online", "", {})
    /\ UNCHANGED <<busVars, dashVars, customVars, storageVars, hidden>>

\* Alt + R: refreshWidgets()
KeyboardRefresh ==
    /\ widgets' = RefreshWidgets(widgets)
    /\ InBound(widgets')
    /\ published' = <<>>
    /\ lastRt' = Last("keyboard", "", {})
    /\ UNCHANGED <<busVars, dashVars, customVars, storageVars, realtime, hidden>>

\* The fetch of a refresh in flight settles and refresh() runs to its end.
LoadSettles(w, outcome) ==
    /\ widgets[w].inFlight > 0
    /\ widgets' = [widgets EXCEPT ![w] = Settle(@, outcome)]
    /\ published' = SettleEvents(w, outcome)
    /\ lastRt' = Last(outcome, w, {})
    /\ UNCHANGED <<busVars, dashVars, customVars, storageVars, realtime, hidden>>

\* The retry button of a widget's error panel is activated.
RetryClicked(w) ==
    /\ widgets[w].view = "error"
    /\ widgets' = [widgets EXCEPT ![w] = retryClicked(@, w)]
    /\ InBound(widgets')
    /\ published' = <<>>
    /\ lastRt' = Last("retry", w, {})
    /\ UNCHANGED <<busVars, dashVars, customVars, storageVars, realtime, hidden>>

\* Calls of a widget's own methods, in any order.
LifecycleWidgets == {"tasks"}

Destroy(w) ==
    /\ widgets' = [widgets EXCEPT ![w] = destroy(@)]
    /\ published' = <<>>
    /\ lastRt' = Last("destroy", w, {})
    /\ UNCHANGED <<busVars, dashVars, customVars, storageVars, realtime, hidden>>

WidgetStartAutoRefresh(w) ==
    /\ widgets' = [widgets EXCEPT ![w] = startAutoRefreshOf(@)]
    /\ published' = <<>>
    /\ lastRt' = Last("widgetStart", "", {})
    /\ UNCHANGED <<busVars, dashVars, customVars, storageVars, realtime, hidden>>

WidgetStopAutoRefresh(w) ==
    /\ widgets' = [widgets EXCEPT ![w] = stopAutoRefreshOf(@)]
    /\ published' = <<>>
    /\ lastRt' = Last("widgetStop", "", {})
    /\ UNCHANGED <<busVars, dashVars, customVars, storageVars, realtime, hidden>>

SetAutoRefreshInterval(w, intervalMs) ==
    /\ widgets' = [widgets EXCEPT ![w] = setAutoRefreshInterval(@, intervalMs)]
    /\ published' = <<>>
    /\ lastRt' = Last("setInterval", "", {})
    /\ UNCHANGED <<busVars, dashVars, customVars, storageVars, realtime, hidden>>

SetAutoRefresh(w, enabled) ==
    /\ widgets' = [widgets EXCEPT ![w] = setAutoRefresh(@, enabled)]
    /\ published' = <<>>
    /\ lastRt' = Last("setAuto", "", {})
    /\ UNCHANGED <<busVars, dashVars, customVars, storageVars, realtime, hidden>>

NextWidgets ==
    \/ \E t \in 1..MaxTimers : Tick(t)
    \/ \E w \in Widgets : WidgetTimer(w)
    \/ PageHidden
    \/ PageVisible
    \/ NetworkOffline
    \/ NetworkOnline
    \/ KeyboardRefresh
    \/ \E w \in Widgets, outcome \in LoadOutcomes : LoadSettles(w, outcome)
    \/ \E w \in Widgets : RetryClicked(w)

NextRealtime ==
    \/ \E name \in CallNames, interval \in Intervals :
            StartWidgetRefresh(name, interval)
    \/ \E name \in CallNames : StopWidgetRefresh(name)
    \/ StartAutoRefresh
    \/ PauseAutoRefresh
    \/ ResumeAutoRefresh
    \/ \E name \in PreferenceRateNames, interval \in Intervals :
            SetRefreshRate(name, interval)
    \/ \E enabled \in BOOLEAN : SetAutoRefreshEnabled(enabled)
    \/ \E t \in 1..MaxTimers : Tick(t)
    \/ PageHidden
    \/ PageVisible
    \/ NetworkOffline
    \/ NetworkOnline

NextLifecycle ==
    \/ \E w \in LifecycleWidgets : Destroy(w)
    \/ \E w \in LifecycleWidgets : WidgetStartAutoRefresh(w)
    \/ \E w \in LifecycleWidgets : WidgetStopAutoRefresh(w)
    \/ \E w \in LifecycleWidgets, intervalMs \in Intervals :
            SetAutoRefreshInterval(w, intervalMs)
    \/ \E w \in LifecycleWidgets, enabled \in BOOLEAN : SetAutoRefresh(w, enabled)
    \/ \E w \in LifecycleWidgets, interval \in Intervals :
            StartWidgetRefresh(w, interval)
    \/ \E w \in LifecycleWidgets : StopWidgetRefresh(w)
    \/ PauseAutoRefresh
    \/ ResumeAutoRefresh
    \/ \E w \in Widgets : WidgetTimer(w)
    \/ \E t \in 1..MaxTimers : Tick(t)
    \/ \E w \in Widgets, outcome \in LoadOutcomes : LoadSettles(w, outcome)

\* --------------------------------------------------- CustomizationService
DefaultPreferences ==
    JObj(<<"theme", "widgetOrder", "hiddenWidgets", "autoRefresh",
           "refreshInterval", "compactMode", "showWidgetTitles",
           "animationsEnabled", "highContrastMode", "fontSize", "layout">>,
         <<JStr(<<"light">>),
           JArr(<<JStr(<<"announcements">>), JStr(<<"quickLaunch">>),
                  JStr(<<"tasks">>), JStr(<<"calendar">>), JStr(<<"tickets">>)>>),
           JArr(<<>>), JBool(TRUE), JNum(300000), JBool(FALSE), JBool(TRUE),
           JBool(TRUE), JBool(FALSE), JStr(<<"medium">>), JStr(<<"grid">>)>>)

\* loadPreferences(): { ...this.defaultPreferences, ...saved }
loadPreferences(this, st) == Spread(this.defaultPreferences, getUserPreferences(st))

\* The constructor: this.preferences = this.loadPreferences() runs while
\* this.defaultPreferences is still undefined, then defaultPreferences is set.
CustomizationService(st) ==
    [preferences |-> loadPreferences([defaultPreferences |-> JUndefined], st),
     defaultPreferences |-> DefaultPreferences]

\* The setters up to their savePreferences(); a setter that rejects its
\* argument returns the service as it is.
ThemeNames == {"light", "dark", "auto"}
FontSizes == {"small", "medium", "large"}

setTheme(cs, theme) ==
    IF theme \notin ThemeNames THEN cs
    ELSE [cs EXCEPT !.preferences = SetProp(@, "theme", JStr(<<theme>>))]

setFontSize(cs, size) ==
    IF size \notin FontSizes THEN cs
    ELSE [cs EXCEPT !.preferences = SetProp(@, "fontSize", JStr(<<size>>))]

setCompactMode(cs, enabled) ==
    [cs EXCEPT !.preferences = SetProp(@, "compactMode", JBool(enabled))]

setWidgetOrder(cs, order) ==
    IF order.type # "array" THEN cs
    ELSE [cs EXCEPT !.preferences = SetProp(@, "widgetOrder", order)]

\* Array.from(new Set(hiddenWidgets) with widgetName deleted or added)
setWidgetVisibility(cs, widgetName, visible) ==
    LET hiddenWidgets == GetProp(cs.preferences, "hiddenWidgets").items
        name == JStr(<<widgetName>>)
        without == SelectSeq(hiddenWidgets, LAMBDA x : x # name)
    IN  [cs EXCEPT !.preferences =
            SetProp(@, "hiddenWidgets",
                    JArr(IF visible THEN without
                         ELSE IF Len(without) < Len(hiddenWidgets) THEN hiddenWidgets
                         ELSE Append(hiddenWidgets, name)))]

resetToDefaults(cs) == [cs EXCEPT !.preferences = Spread(cs.defaultPreferences, JUndefined)]

\* applyTheme(theme): theme:applied with the theme ('auto' is not resolved
\* here); savePreferences(): preferences:changed
ThemeApplied(cs) ==
    LET theme == GetProp(cs.preferences, "theme")
    IN  <<"theme:applied", IF theme.type = "string" /\ theme.str # <<>>
                           THEN theme.str[1] ELSE "">>

PreferencesChanged == <<"preferences:changed", "">>

\* lastCust: the call ("new" for the constructor, "setter" for setTheme,
\* setFontSize, setCompactMode, setWidgetOrder and setWidgetVisibility,
\* "resetToDefaults"), and a bit that changes with every call
LastCust(op, last) == [op |-> op, turn |-> 1 - last.turn]

InitCustomization ==
    /\ customization = CustomizationService(StorageService(TRUE, EmptyMap))
    /\ lastCust = [op |-> "new", turn |-> 0]

\* ------------------------------------------------- StorageService calls
InitStorage ==
    /\ storage = StorageService(TRUE, EmptyMap)
    /\ lastStore = LastStore("new", "", JNull, TRUE)

\* The page is loaded again: a new service over the same localStorage.
Construct(available) ==
    /\ storage' = StorageService(available, storage.localStorage)
    /\ lastStore' = LastStore("new", "", JNull, TRUE)
    /\ UNCHANGED <<busVars, dashVars, customVars, widgets, realtimeVars>>

SetItem(key, value, quotaExceeded) ==
    /\ storage' = setItem(storage, key, value, quotaExceeded)
    /\ lastStore' = LastStore("setItem", key, value,
                              ~(storage.isLocalStorageAvailable /\ quotaExceeded))
    /\ UNCHANGED <<busVars, dashVars, customVars, widgets, realtimeVars>>

GetItem(key) ==
    /\ lastStore' = LastStore("getItem", key, getItem(storage, key), TRUE)
    /\ UNCHANGED <<busVars, dashVars, customVars, widgets, realtimeVars, storage>>

RemoveItem(key) ==
    /\ storage' = removeItem(storage, key)
    /\ lastStore' = LastStore("removeItem", key, JNull, TRUE)
    /\ UNCHANGED <<busVars, dashVars, customVars, widgets, realtimeVars>>

NextStorage ==
    \/ \E available \in BOOLEAN : Construct(available)
    \/ \E key \in Keys, value \in Values, quotaExceeded \in BOOLEAN :
            SetItem(key, value, quotaExceeded)
    \/ \E key \in Keys : GetItem(key)
    \/ \E key \in Keys : RemoveItem(key)

\* ---------------------------------------------- CustomizationService calls
\* savePreferences() of the service as a setter left it
SavePreferences(cs) ==
    /\ customization' = cs
    /\ storage' = setUserPreferences(storage, cs.preferences)
    /\ UNCHANGED lastStore

SetTheme(theme) ==
    /\ lastCust' = LastCust("setter", lastCust)
    /\ IF theme \in ThemeNames
       THEN /\ SavePreferences(setTheme(customization, theme))
            /\ published' = <<ThemeApplied(customization'), PreferencesChanged>>
       ELSE /\ published' = <<>>
            /\ UNCHANGED <<customization, storageVars>>
    /\ UNCHANGED <<busVars, dashVars, widgets, realtime, hidden, lastRt>>

SetFontSize(size) ==
    /\ lastCust' = LastCust("setter", lastCust)
    /\ IF size \in FontSizes
       THEN /\ SavePreferences(setFontSize(customization, size))
            /\ published' = <<PreferencesChanged>>
       ELSE /\ published' = <<>>
            /\ UNCHANGED <<customization, storageVars>>
    /\ UNCHANGED <<busVars, dashVars, widgets, realtime, hidden, lastRt>>

SetCompactMode(enabled) ==
    /\ lastCust' = LastCust("setter", lastCust)
    /\ SavePreferences(setCompactMode(customization, enabled))
    /\ published' = <<PreferencesChanged>>
    /\ UNCHANGED <<busVars, dashVars, widgets, realtime, hidden, lastRt>>

SetWidgetOrder(order) ==
    /\ lastCust' = LastCust("setter", lastCust)
    /\ SavePreferences(setWidgetOrder(customization, order))
    /\ published' = <<PreferencesChanged>>
    /\ UNCHANGED <<busVars, dashVars, widgets, realtime, hidden, lastRt>>

SetWidgetVisibility(widgetName, visible) ==
    /\ lastCust' = LastCust("setter", lastCust)
    /\ SavePreferences(setWidgetVisibility(customization, widgetName, visible))
    /\ published' = <<PreferencesChanged>>
    /\ UNCHANGED <<busVars, dashVars, widgets, realtime, hidden, lastRt>>

ResetToDefaults ==
    /\ lastCust' = LastCust("resetToDefaults", lastCust)
    /\ SavePreferences(resetToDefaults(customization))
    /\ published' = <<ThemeApplied(customization'), PreferencesChanged,
                      <<"preferences:reset", "">> >>
    /\ UNCHANGED <<busVars, dashVars, widgets, realtime, hidden, lastRt>>

\* The page is loaded again in the same browser: new services over the
\* localStorage as it is, customization.init() (applyPreferences) and
\* realtime.init(), new widgets.
Reload ==
    /\ storage' = StorageService(TRUE, storage.localStorage)
    /\ customization' = CustomizationService(storage')
    /\ lastCust' = LastCust("new", lastCust)
    /\ lastStore' = LastStore("new", "", JNull, TRUE)
    /\ published' = <<ThemeApplied(customization')>>
    /\ realtime' = InitialRealtime
    /\ widgets' = InitialWidgets
    /\ hidden' = FALSE
    /\ lastRt' = Last("init", "", {})
    /\ UNCHANGED <<busVars, dashVars>>

\* The inputs of the setters
ThemeInputs == {"dark", "sepia"}
FontSizeInputs == {"large"}
WidgetOrderInputs == {JArr(<<JStr(<<"tasks">>), JStr(<<"announcements">>)>>)}
VisibilityNames == {"tasks"}

NextPreferences ==
    \/ \E theme \in ThemeInputs : SetTheme(theme)
    \/ \E size \in FontSizeInputs : SetFontSize(size)
    \/ SetCompactMode(TRUE)
    \/ \E order \in WidgetOrderInputs : SetWidgetOrder(order)
    \/ \E widgetName \in VisibilityNames, visible \in BOOLEAN :
            SetWidgetVisibility(widgetName, visible)
    \/ ResetToDefaults
    \/ \E name \in PreferenceRateNames, interval \in Intervals :
            SetRefreshRate(name, interval)
    \/ \E enabled \in BOOLEAN : SetAutoRefreshEnabled(enabled)
    \/ Reload

\* ------------------------------------------------------------ DashboardApp
\* widgetConfigs of initializeWidgets(), as declared: the entries of the
\* widgets of Widgets.
WidgetConfigs ==
    << [name |-> "announcements", priority |-> 1],
       [name |-> "quickLaunch", priority |-> 2],
       [name |-> "tasks", priority |-> 3] >>

\* widgetConfigs.sort((a, b) => a.priority - b.priority), a stable sort
InsertByPriority(sorted, c) ==
    LET k == Cardinality({i \in 1..Len(sorted) : sorted[i].priority <= c.priority})
    IN  SubSeq(sorted, 1, k) \o <<c>> \o SubSeq(sorted, k + 1, Len(sorted))

RECURSIVE SortFrom(_, _)
SortFrom(configs, i) ==
    IF i = 0 THEN <<>> ELSE InsertByPriority(SortFrom(configs, i - 1), configs[i])

SortedConfigs == SortFrom(WidgetConfigs, Len(WidgetConfigs))

\* How the init() of a widget ends: resolved after render(), resolved after
\* handleError (loadData() or render() threw), or rejected.
InitOutcomes == {"ok", "loadFails", "renderFails", "initThrows"}

\* A widget as its constructor leaves it.
NewWidget(w) ==
    [isLoading |-> FALSE, inFlight |-> 0, view |-> "empty", calls |-> 0,
     refreshInterval |-> "null", ownTimers |-> 0, autoRefreshEnabled |-> TRUE,
     refreshIntervalMs |-> IF w = "quickLaunch" THEN 0 ELSE 1, destroys |-> 0]

\* init() of a widget after its await: render() and, but for the quick
\* launch widget, startAutoRefresh(); or handleError and the error panel.
initSettled(wd, w, outcome) ==
    IF outcome = "ok"
    THEN IF w \in SelfTimedWidgets
         THEN startAutoRefreshOf([wd EXCEPT !.view = "content"])
         ELSE [wd EXCEPT !.view = "content"]
    ELSE [wd EXCEPT !.view = "error"]

\* What init() of a widget publishes: widget:error from handleError.
InitEvents(w, outcome) ==
    IF outcome \in {"loadFails", "renderFails"}
    THEN << <<"widget:error", ConstructorName(w)>> >> ELSE <<>>

\* The DashboardApp: phase is how far init() has come, containers the names
\* whose container element is in the document, next the index of the config
\* being initialised, pending the widget whose init() is awaiting loadData()
\* (the local variable widget), log the configs the loop has gone through.
\* servicesOk records that initializeServices() returned.
NewDashboard ==
    [phase |-> "constructed", isInitialized |-> FALSE, servicesOk |-> FALSE,
     containers |-> {}, next |-> 1, pending |-> <<>>, log |-> <<>>]

Logged(d, w, outcome) ==
    [d EXCEPT !.log = Append(@, [name |-> w, outcome |-> outcome])]

\* The loop of initializeWidgets() from config i up to the next await: a
\* config without container is skipped, the next one is constructed and its
\* init() runs to await loadData(); after the last config init() goes on
\* to setupEventListeners(), setupRealtimeHandlers(), isInitialized = true.
RECURSIVE initializeWidgets(_, _)
initializeWidgets(d, i) ==
    IF i > Len(SortedConfigs)
    THEN [d EXCEPT !.phase = "done", !.isInitialized = TRUE, !.next = i,
                   !.pending = <<>>]
    ELSE LET w == SortedConfigs[i].name
         IN  IF w \notin d.containers
             THEN initializeWidgets(Logged(d, w, "containerMissing"), i + 1)
             ELSE [d EXCEPT !.phase = "widgets", !.next = i,
                            !.pending = <<NewWidget(w)>>]

\* The catch of init(): handleInitializationError
handleInitializationError(d) ==
    [d EXCEPT !.phase = "failed", !.pending = <<>>]

\* await widget.init() has settled: widgets.set() when it resolved, the
\* catch of the loop when it rejected, then the next config.
widgetInitSettledNoCatch(d, outcome) ==
    IF outcome = "initThrows"
    THEN handleInitializationError(
            Logged(d, SortedConfigs[d.next].name, outcome))
    ELSE initializeWidgets(Logged(d, SortedConfigs[d.next].name, outcome),
                           d.next + 1)

widgetInitSettled(d, outcome) ==
    initializeWidgets(Logged(d, SortedConfigs[d.next].name, outcome),
                      d.next + 1)

\* init() up to its first await of a widget's loadData(), or its catch
\* when initializeServices() throws.
init(d, containers, servicesOk) ==
    IF servicesOk
    THEN initializeWidgets([d EXCEPT !.servicesOk = TRUE,
                                     !.containers = containers], 1)
    ELSE handleInitializationError([d EXCEPT !.containers = containers])

\* The dashboard after an init() in which every widget initialised.
RECURSIVE Started(_)
Started(d) ==
    IF d.phase = "widgets" THEN Started(widgetInitSettled(d, "ok")) ELSE d

InitialDashboard == Started(init(NewDashboard, Widgets, TRUE))

InitDashboard == dashboard = InitialDashboard

\* window.dashboard.init() is called.
DashboardInit(containers, servicesOk) ==
    /\ dashboard.phase = "constructed"
    /\ dashboard' = init(dashboard, containers, servicesOk)
    /\ realtime' = IF servicesOk THEN startAutoRefresh(realtime) ELSE realtime
    /\ published' = IF servicesOk THEN <<ThemeApplied(customization)>> ELSE <<>>
    /\ lastRt' = Last("init", "", {})
    /\ UNCHANGED <<busVars, customVars, storageVars, widgets, hidden>>

\* The init() of the widget being initialised settles.
WidgetInitSettles(outcome) ==
    /\ dashboard.pending # <<>>
    /\ LET w == SortedConfigs[dashboard.next].name
           wd == initSettled(dashboard.pending[1], w, outcome)
       IN  /\ widgets' = IF outcome = "initThrows" THEN widgets
                         ELSE MapSet(widgets, w, wd)
           /\ published' = InitEvents(w, outcome)
           /\ lastRt' = Last("initSettled", w, {})
    /\ dashboard' = widgetInitSettled(dashboard, outcome)
    /\ UNCHANGED <<busVars, customVars, storageVars, realtime, hidden>>

\* refresh() is called on the widget whose init() is awaiting loadData().
RefreshDuringInit ==
    /\ dashboard.pending # <<>>
    /\ dashboard' = [dashboard EXCEPT !.pending = <<Refresh(@[1])>>]
    /\ published' = <<>>
    /\ lastRt' = Last("refresh", SortedConfigs[dashboard.next].name, {})
    /\ UNCHANGED <<busVars, customVars, storageVars, widgets, realtime, hidden>>

\* The fetch of that refresh() settles before the init() does.
PendingLoadSettles(outcome) ==
    /\ dashboard.pending # <<>>
    /\ dashboard.pending[1].inFlight > 0
    /\ dashboard' = [dashboard EXCEPT !.pending = <<Settle(@[1], outcome)>>]
    /\ published' = SettleEvents(SortedConfigs[dashboard.next].name, outcome)
    /\ lastRt' = Last(outcome, SortedConfigs[dashboard.next].name, {})
    /\ UNCHANGED <<busVars, customVars, storageVars, widgets, realtime, hidden>>

\* The fetch of a refresh() settles after the widget has been registered.
RegisteredLoadSettles(w, outcome) ==
    /\ w \in DOMAIN widgets
    /\ LoadSettles(w, outcome)

ContainerSets == SUBSET Widgets

NextStartup ==
    \/ \E containers \in ContainerSets, servicesOk \in BOOLEAN :
            DashboardInit(containers, servicesOk)
    \/ \E outcome \in InitOutcomes : WidgetInitSettles(outcome)
    \/ RefreshDuringInit
    \/ \E outcome \in LoadOutcomes : PendingLoadSettles(outcome)
    \/ \E w \in Widgets, outcome \in LoadOutcomes :
            RegisteredLoadSettles(w, outcome)

Init ==
    /\ InitBus /\ InitWidgets /\ InitRealtime /\ InitStorage
    /\ InitCustomization /\ InitDashboard

\* The page has loaded and the DashboardApp has been constructed.
InitStartup ==
    /\ InitBus /\ watch = "calls"
    /\ widgets = EmptyMap
    /\ realtime = NewRealtime
    /\ hidden = FALSE
    /\ published = <<>>
    /\ lastRt = Last("new", "", {})
    /\ InitStorage /\ InitCustomization
    /\ dashboard = NewDashboard

\* The dashboard as its services and widgets are called; the bus records
\* calls only.
InitCalls == Init /\ watch = "calls"

\* The event bus driven by arbitrary callers and listeners.
Spec == Init /\ [][NextBus]_vars

\* The widgets of the running dashboard driven by every caller of refresh().
WidgetSpec == InitCalls /\ [][NextWidgets]_vars

\* The RealtimeService driven by calls of its methods, by its timers and by
\* the browser's network and visibility events.
RealtimeSpec == InitCalls /\ [][NextRealtime]_vars

\* A widget driven by calls of its own methods, by its timer and by the
\* coordinator's timers.
LifecycleSpec == InitCalls /\ [][NextLifecycle]_vars

\* The preferences as the customization service and the refresh
\* coordinator write them, over page loads.
PreferencesSpec == InitCalls /\ [][NextPreferences]_vars

\* The start of the dashboard: init() and the widgets it initialises.
StartupSpec == InitStartup /\ [][NextStartup]_vars

\* The storage service driven by arbitrary calls and page loads.
StorageSpec == InitCalls /\ [][NextStorage]_vars

\* ------------------------------------------------------------- properties
Frames == {stack[i] : i \in 1..Len(stack)}
Done(f) == f.idx > Len(f.snap)
Min(a, b) == IF a < b THEN a ELSE b

\* C1 as stated: no callback is invoked after the off() call that removed
\* its last registration has returned.
C1NeverInvokedAfterOff == \A f \in Frames : ~f.late

\* C1: a callback is invoked after the off() call that removed it has
\* returned only by an emit that was already in progress, with the callback
\* in its snapshot, when off() was called; an emit that starts after off()
\* returned never invokes it.
C1InvokedAfterOffOnlyFromSnapshot ==
    \A f \in Frames : f.late => Cur(f).cb \in f.offd

\* An emit in progress invokes a callback that a listener of the same emit
\* has removed with off().
C1RemovedDuringEmitInvoked ==
    \E f \in Frames : f.late /\ Cur(f).cb \in f.offd /\ Len(f.inv) > 1

\* C2: the listeners an emit has invoked are, in order and once each, the
\* subscriptions registered when it started: never one added during the
\* emission, and all of them once the emit is through, whatever listeners
\* added or removed meanwhile.
C2EmitInvokesSnapshotInOrder ==
    \A f \in Frames :
        /\ Len(f.inv) = Min(f.idx, Len(f.atStart))
        /\ \A j \in 1..Len(f.inv) : f.inv[j][1] = f.atStart[j]

\* An emit is through, has invoked its two listeners, and the list of its
\* event is no longer the one it started with.
C2ListChangedDuringEmit ==
    \E f \in Frames :
        /\ Done(f)
        /\ Len(f.inv) = 2
        /\ listenerCount(events, f.ev) > 0
        /\ events[f.ev] # f.atStart

\* C3 as stated: the callback of a once() subscription is invoked at most
\* once in total.
C3OnceInvokedAtMostOnce == \A n \in 1..MaxOnce : onceCalls[n] <= 1

\* C4 as stated: when the callback of a once() subscription has thrown, the
\* subscription is no longer in the registry.
C4OnceRemovedAfterThrow ==
    \A f \in Frames :
        (/\ f.lastOut = "threw"
         /\ f.snap[f.idx - 1].k = "once"
         /\ f.snap[f.idx - 1].cb \in Callbacks)
        => Count(IF Has(events, f.ev) THEN events[f.ev] ELSE <<>>,
                 f.snap[f.idx - 1]) = 0

\* C5 as stated: no event has more listeners than maxListeners.
C5CountWithinCap ==
    \A e \in EventNames : listenerCount(events, e) <= maxListeners

\* C6: an emit that is about to return returns a boolean, and it returns
\* true exactly when at least one listener of its snapshot ran to
\* completion; so it returns false when the event has no subscribers and
\* when every listener threw.
C6EmitTrueIffOneCompleted ==
    \A f \in Frames :
        Done(f) => /\ EmitResult(f) \in {"true", "false"}
                   /\ EmitResult(f) = "true" <=> f.oks > 0

\* An emit whose listeners all threw is about to return false.
C6AllThrewReturnsFalse ==
    \E f \in Frames :
        Done(f) /\ f.threw /\ f.oks = 0 /\ Len(f.inv) = 2
                /\ EmitResult(f) = "false"

\* C7: after a listener threw, the emit goes on through its snapshot, every
\* listener is invoked with the arguments of the emit call, and the emit
\* returns a boolean to its caller instead of throwing.
C7ThrowIsolated ==
    \A f \in Frames :
        /\ Done(f) => EmitResult(f) \in {"true", "false"}
        /\ f.threw => Len(f.inv) = Min(f.idx, Len(f.snap))
        /\ \A j \in 1..Len(f.inv) : f.inv[j][2] = f.args

\* The second listener of an emit is running after the first one threw.
C7NextInvokedAfterThrow ==
    \E f \in Frames : f.threw /\ f.oks = 0 /\ f.idx = 2 /\ ~Done(f)

\* C8 as stated: on and once never throw.
C8RegistrationNeverThrows ==
    lastOp.op \in {"on", "once"} => lastOp.ret # "threw"

\* C8: on throws when the callback is not a function and in no other case,
\* once never throws; both return false exactly when the event is at the
\* cap; a registration that threw or returned false has left the registry
\* unchanged.
C8RegistrationFailures ==
    lastOp.op \in {"on", "once"} =>
        /\ lastOp.ret = "threw" <=> (lastOp.op = "on" /\ ~lastOp.fn)
        /\ lastOp.ret = "false" <=> (lastOp.pre /\ (lastOp.fn \/ lastOp.op = "once"))
        /\ lastOp.ret # "true" => ~lastOp.changed

\* on has just thrown for a callback that is not a function, on a bus that
\* has listeners.
C8OnThrew ==
    lastOp.op = "on" /\ lastOp.ret = "threw" /\ TotalListeners(events) > 0

\* C9: off for a callback that is not registered returns false and leaves
\* the registry unchanged; the registry holds exactly the event names that
\* have at least one listener.
C9OffMissAndNoEmptyNames ==
    /\ (lastOp.op = "off" /\ ~lastOp.pre) =>
            (lastOp.ret = "false" /\ ~lastOp.changed)
    /\ \A e \in EventNames :
            e \in eventNames(events) <=> listenerCount(events, e) > 0

\* off has just removed the only listener of the bus.
C9LastListenerRemoved ==
    lastOp.op = "off" /\ lastOp.ret = "true" /\ eventNames(events) = {}

\* C10: a widget has at most one loadData call of refresh() in flight, and
\* it is loading exactly while that call is in flight; a refresh() call on
\* a widget that is loading starts no loadData, renders nothing and leaves
\* the loading state set.
RefreshSkipped(w) ==
    (widgets[w].isLoading /\ widgets'[w].calls > widgets[w].calls)
        => widgets'[w] = [widgets[w] EXCEPT !.calls = widgets'[w].calls]

OneInFlight(w) ==
    /\ widgets'[w].inFlight <= 1
    /\ widgets'[w].isLoading <=> widgets'[w].inFlight = 1

C10RefreshWhileLoadingIsNoOp ==
    [][\A w \in Widgets : RefreshSkipped(w) /\ OneInFlight(w)]_vars

\* A widget is loading and refresh() has been called on it again meanwhile.
C10RefreshCalledWhileLoading ==
    \E w \in Widgets :
        widgets[w].isLoading /\ widgets[w].calls = 2 /\ widgets[w].inFlight = 1

\* C14 as stated: no widget name has more than one live timer.
C14OneTimerPerName ==
    \A n \in RefreshRateNames : Cardinality(TimersOf(realtime, n)) <= 1

\* C16 as stated: the timer tick that follows stopWidgetRefresh(name)
\* publishes no widget:refresh-requested event for name.
C16NoTickAfterStop ==
    [][(lastRt.op = "stop" /\ lastRt'.op = "tick")
            => lastRt.name \notin RequestedNames(published')]_vars

\* C17 as stated: resumeAutoRefresh() right after pauseAutoRefresh() leaves
\* a live timer for exactly the names that had one before the pause.
C17PauseResumeRestores ==
    [][(lastRt.op = "pause" /\ lastRt'.op = "resume")
            => LiveNames(realtime') = lastRt.live]_vars

\* C18 as stated: the offline event publishes network:offline and leaves no
\* live timer; the online event publishes network:online, then one
\* widget:refresh-requested per configured widget, and leaves one live timer
\* per configured widget with an interval > 0.
C18OfflineOnlineSequence ==
    /\ lastRt.op = "offline" =>
            /\ published = <<NetworkEvent("network:offline")>>
            /\ DOMAIN realtime.timers = {}
    /\ lastRt.op = "online" =>
            /\ published[1] = NetworkEvent("network:online")
            /\ RequestedNames(published) = RefreshRateNames
            /\ \A n \in RefreshRateNames :
                    Cardinality(TimersOf(realtime, n))
                        = IF realtime.refreshRates[n] > 0 THEN 1 ELSE 0

\* C19: when the page becomes visible, exactly one widget:refresh-requested
\* event is published for every key of refreshRates if the service is
\* online, whatever timers are live, and nothing is published if it is
\* offline.
C19VisibleRequestsEveryName ==
    lastRt.op = "visible" =>
        /\ \A n \in RefreshRateNames :
                Count(published, RefreshRequestedEvent(n))
                    = IF realtime.isOnline THEN 1 ELSE 0
        /\ Len(published) = IF realtime.isOnline THEN Len(RateOrder) ELSE 0

\* The page has become visible while the service is online and has no live
\* timer, and an event was published for every key.
C19VisibleWithoutTimers ==
    /\ lastRt.op = "visible"
    /\ realtime.isOnline
    /\ DOMAIN realtime.timers = {}
    /\ RequestedNames(published) = RefreshRateNames

\* C11: a widget is loading exactly while a refresh is in flight, so every
\* refresh that set isLoading has cleared it when it ends; the refresh
\* that ends publishes exactly one event, and when loadData() rejected that
\* event is widget:error for the widget and the widget shows the error.
C11LoadingPairedAndOneError ==
    /\ \A w \in Widgets : widgets[w].isLoading <=> widgets[w].inFlight > 0
    /\ lastRt.op \in LoadOutcomes =>
            /\ ~widgets[lastRt.name].isLoading
            /\ Len(published) = 1
            /\ lastRt.op = "loadFails" =>
                    /\ published[1] = <<"widget:error", ConstructorName(lastRt.name)>>
                    /\ widgets[lastRt.name].view = "error"
            /\ lastRt.op = "ok" =>
                    published[1] = <<"widget:refreshed", ConstructorName(lastRt.name)>>

\* A refresh whose loadData() rejected has just ended.
C11RefreshFailed ==
    /\ lastRt.op = "loadFails"
    /\ published = << <<"widget:error", ConstructorName(lastRt.name)>> >>
    /\ ~widgets[lastRt.name].isLoading

\* C12: when destroy() has returned, on the first call and on every later
\* one, the widget has no refresh timer, refreshInterval is null and the
\* container is empty.
C12DestroyIdempotent ==
    lastRt.op = "destroy" =>
        /\ widgets[lastRt.name].refreshInterval = "null"
        /\ widgets[lastRt.name].ownTimers = 0
        /\ widgets[lastRt.name].view = "empty"

\* destroy() has returned for the second time.
C12DestroyedTwice ==
    lastRt.op = "destroy" /\ widgets[lastRt.name].destroys = 2

\* C13 as stated: when the fetch of a refresh that was waiting while
\* destroy() was called settles, the container stays empty and no
\* widget:refreshed event is published for the widget.
C13LateResponseIgnored ==
    [][(/\ lastRt.op = "destroy"
        /\ lastRt'.op \in LoadOutcomes
        /\ lastRt'.name = lastRt.name)
            => /\ widgets'[lastRt.name].view = "empty"
               /\ Count(published',
                        <<"widget:refreshed", ConstructorName(lastRt.name)>>) = 0]_vars

\* C15 as stated: no widget has two live recurring timers that trigger its
\* refresh, counting its own timer and the coordinator's timers for its name.
C15OneRefreshTimerPerWidget ==
    \A w \in Widgets :
        widgets[w].ownTimers + Cardinality(TimersOf(realtime, w)) <= 1

\* C20 as stated: getItem(k) right after a setItem(k, v) that returned true
\* returns a value equal to v, with localStorage and with the in-memory
\* fallback, and getItem of a key that is not set returns null.
C20RoundTrip ==
    [][lastStore'.op = "getItem" =>
        /\ (lastStore.op = "setItem" /\ lastStore.ok
                /\ lastStore.key = lastStore'.key)
                    => lastStore'.value = lastStore.value
        /\ (FullKey(lastStore'.key) \notin
                (IF storage.isLocalStorageAvailable
                 THEN DOMAIN storage.localStorage
                 ELSE DOMAIN storage.memoryStorage))
                    => lastStore'.value = JNull]_vars

\* C21 as stated: when setItem(k, v) failed because the write to
\* localStorage threw, the service has fallen back to its in-memory map, so
\* the getItem(k) that follows returns v.
C21FailedWriteFallsBack ==
    [][(/\ lastStore.op = "setItem"
        /\ ~lastStore.ok
        /\ lastStore'.op = "getItem"
        /\ lastStore'.key = lastStore.key)
            => lastStore'.value = lastStore.value]_vars

\* C25 as stated: whenever the service is offline no coordinator timer is
\* alive, and a timer that fires while the service is offline publishes
\* nothing.
C25NoTimerWhileOffline ==
    ~realtime.isOnline =>
        /\ DOMAIN realtime.timers = {}
        /\ lastRt.op = "tick" => published = <<>>

\* C26 as stated: this.intervals has an entry for a name exactly when a timer
\* of that name is alive, and holds as many entries as there are timers alive.
C26RegistryMatchesLiveTimers ==
    /\ \A n \in RefreshRateNames :
            Has(realtime.intervals, n) <=> TimersOf(realtime, n) # {}
    /\ Cardinality(DOMAIN realtime.intervals) = Cardinality(DOMAIN realtime.timers)

\* C29 as stated: while the last setAutoRefreshEnabled call was
\* setAutoRefreshEnabled(false), which is when the stored autoRefresh
\* preference is false, no coordinator timer is alive and a timer that
\* fires publishes nothing.
C29NoTimerWhileDisabled ==
    ~isAutoRefreshEnabled(storage) =>
        /\ DOMAIN realtime.timers = {}
        /\ lastRt.op = "tick" => published = <<>>

\* C22 as stated: when the CustomizationService has been constructed, every
\* field of defaultPreferences that the stored preferences object does not
\* have has its default value in this.preferences.
C22MissingFieldsDefaulted ==
    lastCust.op = "new" =>
        \A i \in 1..Len(DefaultPreferences.keys) :
            GetProp(getItem(storage, "user_preferences"),
                    DefaultPreferences.keys[i]) = JUndefined
                => GetProp(customization.preferences, DefaultPreferences.keys[i])
                        = DefaultPreferences.items[i]

\* C28 as stated: a setter of the CustomizationService other than
\* resetToDefaults leaves the stored autoRefresh and refreshRates
\* preferences as they were, so what the RealtimeService wrote is kept.
C28RealtimePreferencesKept ==
    [][(lastCust' # lastCust /\ lastCust'.op = "setter") =>
        /\ GetProp(getUserPreferences(storage'), "autoRefresh")
                = GetProp(getUserPreferences(storage), "autoRefresh")
        /\ GetProp(getUserPreferences(storage'), "refreshRates")
                = GetProp(getUserPreferences(storage), "refreshRates")]_vars

\* C23 as stated: every activation of the retry control of a widget's error
\* panel results in a call to refresh().
C23RetryCallsRefresh ==
    [][lastRt'.op = "retry" =>
            widgets'[lastRt'.name].calls = More(widgets[lastRt'.name].calls)]_vars
\* C24: when the services initialised, init() of the dashboard ends with
\* isInitialized = true whatever way the init() of each widget ended, and
\* the loop has then gone through every config once, in priority order,
\* calling init() on each widget whose container exists; until then the
\* configs gone through are a prefix of that order.
LoggedNames == [i \in 1..Len(dashboard.log) |-> dashboard.log[i].name]
PriorityOrder ==
    [i \in 1..Len(WidgetConfigs) |->
        (CHOOSE c \in {WidgetConfigs[j] : j \in 1..Len(WidgetConfigs)} :
            Cardinality({j \in 1..Len(WidgetConfigs) :
                            WidgetConfigs[j].priority < c.priority}) = i - 1).name]

C24WidgetFailureIsolated ==
    dashboard.servicesOk =>
        /\ dashboard.phase \in {"widgets", "done"}
        /\ LoggedNames = SubSeq(PriorityOrder, 1, Len(dashboard.log))
        /\ \A i \in 1..Len(dashboard.log) :
                dashboard.log[i].outcome = "containerMissing"
                    <=> dashboard.log[i].name \notin dashboard.containers
        /\ dashboard.phase = "done" =>
                /\ dashboard.isInitialized
                /\ LoggedNames = PriorityOrder
                /\ DOMAIN widgets =
                        {dashboard.log[i].name : i \in
                            {j \in 1..Len(dashboard.log) :
                                dashboard.log[j].outcome
                                    \notin {"containerMissing", "initThrows"}}}

\* init() has ended after the init() of the first widget rejected, that of
\* the second failed in loadData() and that of the third succeeded.
C24LaterWidgetsInitialised ==
    /\ dashboard.phase = "done"
    /\ dashboard.isInitialized
    /\ Len(dashboard.log) = 3
    /\ dashboard.log[1].outcome = "initThrows"
    /\ dashboard.log[2].outcome = "loadFails"
    /\ dashboard.log[3].outcome = "ok"
    /\ widgets[dashboard.log[3].name].view = "content"

\* C27 as stated: a widget never has more than one loadData() call in
\* flight, counting the one init() is awaiting and those of refresh().
C27OneLoadInFlight ==
    /\ dashboard.pending # <<>> => dashboard.pending[1].inFlight = 0
    /\ \A w \in DOMAIN widgets : widgets[w].inFlight <= 1
\* C30 as stated: every name published with widget:refresh-requested is a
\* key of the orchestrator's widget map, and the name published with
\* widget:refreshed or widget:error is the key the widget is registered under.
C30NamesConsistent ==
    \A i \in 1..Len(published) :
        published[i][1] \in {"widget:refresh-requested", "widget:refreshed",
                             "widget:error"}
            => published[i][2] \in DOMAIN widgets
====
